---------------------------- MODULE Spec2Model ----------------------------
(***************************************************************************)
(* A model of votca::tools::CubicSpline (include/cubicspline.h) and of      *)
(* votca::tools::linalg_invert (src/libtools/linalg/gsl/invert.cc).        *)
(*                                                                         *)
(* A C++ double is modelled as an exact rational <<num, den>> in lowest    *)
(* terms with den > 0: the arithmetic of the code is kept, its rounding is *)
(* not.  A ublas vector is a function on 0..size-1, a ublas matrix a       *)
(* record with its two sizes and a function on the index pairs.            *)
(***************************************************************************)
EXTENDS Integers, Sequences, FiniteSets, TLC

VARIABLES
    _r,           \* CubicSpline::_r, the grid points
    _f,           \* CubicSpline::_f, the function values at the grid points
    _f2,          \* CubicSpline::_f2, the second derivatives at the grid points
    _boundaries,  \* CubicSpline::_boundaries
    M,            \* the caller's fitting matrix, passed by reference
    nops,         \* number of assembly calls made on M so far
    last,         \* the last call on the object: [op, args, ret, err]
    gsl_error_handler,  \* the error handler GSL has installed, process-wide
    mem,          \* the matrices the caller of linalg_invert owns
    inv,          \* the activation of linalg_invert
    ncalls,       \* number of linalg_invert calls made so far
    atEntry       \* the handler and the matrix A when the call was made

\* the state of a CubicSpline and its fitting matrix
svars == <<_r, _f, _f2, _boundaries, M, nops, last>>
\* the state linalg_invert works on
ivars == <<gsl_error_handler, mem, inv, ncalls, atEntry>>
vars == <<_r, _f, _f2, _boundaries, M, nops, last,
          gsl_error_handler, mem, inv, ncalls, atEntry>>

---------------------------------------------------------------------------
(* Bounds of the model.                                                    *)

\* largest coordinate given to GenerateGrid
MaxX == 5
\* largest grid GenerateGrid is asked for
MaxN == 5
\* largest grid used when a fitting matrix is assembled
MaxFitN == 3
\* number of assembly calls made on one matrix
MaxOps == 2
\* largest matrix given to linalg_invert is MaxDim x MaxDim
MaxDim == 2
\* number of linalg_invert calls made one after the other
MaxCalls == 2

---------------------------------------------------------------------------
(* double: exact rationals.                                                *)

RECURSIVE Gcd(_, _)
Gcd(a, b) == IF b = 0 THEN a ELSE Gcd(b, a % b)

Abs(a) == IF a < 0 THEN -a ELSE a

\* the rational n/d (d # 0) in lowest terms
Q(n, d) ==
    LET g == Gcd(Abs(n), Abs(d))
        s == IF d < 0 THEN -1 ELSE 1
    IN  <<(s * n) \div g, (s * d) \div g>>

Dbl(k) == <<k, 1>>

Add(a, b) == Q(a[1] * b[2] + b[1] * a[2], a[2] * b[2])
Sub(a, b) == Q(a[1] * b[2] - b[1] * a[2], a[2] * b[2])
Mul(a, b) == Q(a[1] * b[1], a[2] * b[2])
Div(a, b) == Q(a[1] * b[2], a[2] * b[1])
Neg(a)    == <<-a[1], a[2]>>
Less(a, b) == a[1] * b[2] < b[1] * a[2]
Zero == Dbl(0)
One  == Dbl(1)

\* (int)q: conversion of a double to int truncates toward zero
Trunc(q) == IF q[1] >= 0 THEN q[1] \div q[2] ELSE -((-q[1]) \div q[2])

---------------------------------------------------------------------------
(* ublas::vector<double>                                                   *)

Size(v) == Cardinality(DOMAIN v)
EmptyVec == [i \in {} |-> Zero]

\* the content of an element that was allocated and never written
Indeterminate == "indeterminate"

\* v.resize(n, false): the elements are not preserved and not initialised
ResizeNoPreserve(v, n) == [i \in 0 .. n - 1 |-> Indeterminate]

StrictlyIncreasing(g) ==
    \A i \in DOMAIN g : (i + 1) \in DOMAIN g => Less(g[i], g[i + 1])

---------------------------------------------------------------------------
(* CubicSpline::getInterval                                                *)

\* the loop of getInterval: the first i in i..size with _r[i] > x, or size
RECURSIVE ScanFrom(_, _, _)
ScanFrom(g, x, i) ==
    IF i < Size(g) /\ ~Less(x, g[i]) THEN ScanFrom(g, x, i + 1) ELSE i

\* getInterval without its clamp to the last interval
getInterval_skipclamp(g, x) ==
    IF Less(x, g[0]) THEN 0
    ELSE ScanFrom(g, x, 0) - 1

getInterval(g, x) ==
    IF Less(x, g[0]) THEN 0
    ELSE IF Less(g[Size(g) - 2], x) THEN Size(g) - 2
    ELSE ScanFrom(g, x, 0) - 1

---------------------------------------------------------------------------
(* CubicSpline::GenerateGrid                                               *)

\* a point count that stops one short when h divides max - min
vec_size_ceil(min, max, h) ==
    LET q == Div(Sub(max, min), h)
    IN  IF q[2] = 1 THEN q[1] ELSE 1 + Trunc(q)

vec_size(min, max, h) == 1 + Trunc(Div(Sub(max, min), h))

\* for (r_init = min, i = 0; i < vec_size - 1; r_init += h) _r[i++] = r_init;
RECURSIVE GridLoop(_, _, _, _, _)
GridLoop(g, r_init, i, n, h) ==
    IF i < n - 1
    THEN GridLoop([g EXCEPT ![i] = r_init], Add(r_init, h), i + 1, n, h)
    ELSE <<g, i>>

\* the grid GenerateGrid stores when vec_size >= 1
GridOf(min, max, h) ==
    LET n    == vec_size(min, max, h)
        g0   == [i \in 0 .. n - 1 |-> Zero]
        loop == GridLoop(g0, min, 0, n, h)
    IN  [loop[1] EXCEPT ![loop[2]] = max]

Call(op, args, ret, err) == [op |-> op, args |-> args, ret |-> ret, err |-> err]

\* the process is gone after undefined behaviour took it down
Running == last.err # "ub"

GenerateGrid(min, max, h) ==
    LET n == vec_size(min, max, h) IN
    /\ Running
    /\ n <= MaxN
    /\ IF n < 0
       THEN \* _r.resize((size_t)vec_size) cannot allocate: std::bad_alloc
            /\ last' = Call("GenerateGrid", <<min, max, h>>, 0, "bad_alloc")
            /\ UNCHANGED <<_r, _f, _f2>>
       ELSE IF n = 0
       THEN \* _r[0] = max writes past the end of an empty vector
            /\ last' = Call("GenerateGrid", <<min, max, h>>, 0, "ub")
            /\ _r' = EmptyVec
            /\ UNCHANGED <<_f, _f2>>
       ELSE /\ _r' = GridOf(min, max, h)
            /\ _f' = ResizeNoPreserve(_f, n)
            /\ _f2' = ResizeNoPreserve(_f2, n)
            /\ last' = Call("GenerateGrid", <<min, max, h>>, n, "none")
    /\ UNCHANGED <<_boundaries, M, nops>>

---------------------------------------------------------------------------
(* The basis functions A, B, C, D and their derivatives.  Each is written  *)
(* on an explicit interval i; the member function takes i = getInterval.   *)

Half  == Q(1, 2)
Third == Q(1, 3)
Sixth == Q(1, 6)

AOn(g, i, x) == Sub(One, Div(Sub(x, g[i]), Sub(g[i + 1], g[i])))
A(g, x) == AOn(g, getInterval(g, x), x)

AprimeOn(g, i, x) == Div(Neg(One), Sub(g[i + 1], g[i]))
Aprime(g, x) == AprimeOn(g, getInterval(g, x), x)

BOn(g, i, x) == Div(Sub(x, g[i]), Sub(g[i + 1], g[i]))
B(g, x) == BOn(g, getInterval(g, x), x)

BprimeOn(g, i, x) == Div(One, Sub(g[i + 1], g[i]))
Bprime(g, x) == BprimeOn(g, getInterval(g, x), x)

\* C with the weight 1/6 of D on its last term
COn_sixth(g, i, x) ==
    LET xxi == Sub(x, g[i])
        h   == Sub(g[i + 1], g[i])
    IN  Sub(Sub(Mul(Half, Mul(xxi, xxi)),
                Div(Mul(Sixth, Mul(xxi, Mul(xxi, xxi))), h)),
            Mul(Sixth, Mul(xxi, h)))

COn(g, i, x) ==
    LET xxi == Sub(x, g[i])
        h   == Sub(g[i + 1], g[i])
    IN  Sub(Sub(Mul(Half, Mul(xxi, xxi)),
                Div(Mul(Sixth, Mul(xxi, Mul(xxi, xxi))), h)),
            Mul(Third, Mul(xxi, h)))
C(g, x) == COn(g, getInterval(g, x), x)

CprimeOn(g, i, x) ==
    LET xxi == Sub(x, g[i])
        h   == Sub(g[i + 1], g[i])
    IN  Sub(Sub(xxi, Div(Mul(Half, Mul(xxi, xxi)), h)), Div(h, Dbl(3)))
Cprime(g, x) == CprimeOn(g, getInterval(g, x), x)

DOn(g, i, x) ==
    LET xxi == Sub(x, g[i])
        h   == Sub(g[i + 1], g[i])
    IN  Sub(Div(Mul(Sixth, Mul(xxi, Mul(xxi, xxi))), h),
            Mul(Sixth, Mul(xxi, h)))
D(g, x) == DOn(g, getInterval(g, x), x)

DprimeOn(g, i, x) ==
    LET xxi == Sub(x, g[i])
        h   == Sub(g[i + 1], g[i])
    IN  Sub(Div(Mul(Half, Mul(xxi, xxi)), h), Mul(Sixth, h))
Dprime(g, x) == DprimeOn(g, getInterval(g, x), x)

---------------------------------------------------------------------------
(* CubicSpline::Calculate, CalculateDerivative, setSplineData              *)

\* the basis functions read _r at interval and interval+1, Calculate reads
\* _f and _f2 there
CoefReadable(g, fv, f2v, x) ==
    LET i == getInterval(g, x) IN
    /\ i >= 0 /\ i + 1 < Size(g)
    /\ i + 1 < Size(fv) /\ i + 1 < Size(f2v)

Calculate(g, fv, f2v, x) ==
    LET interval == getInterval(g, x) IN
    IF Indeterminate \in
         {fv[interval], fv[interval + 1], f2v[interval], f2v[interval + 1]}
    THEN Indeterminate
    ELSE Add(Add(Add(Mul(A(g, x), fv[interval]),
                     Mul(B(g, x), fv[interval + 1])),
                 Mul(C(g, x), f2v[interval])),
             Mul(D(g, x), f2v[interval + 1]))

\* the cubic piece of interval i, differentiated at x
CalculateDerivativeOn(g, fv, f2v, i, x) ==
    Add(Add(Add(Mul(AprimeOn(g, i, x), fv[i]),
                Mul(BprimeOn(g, i, x), fv[i + 1])),
            Mul(CprimeOn(g, i, x), f2v[i])),
        Mul(DprimeOn(g, i, x), f2v[i + 1]))

CalculateDerivative(g, fv, f2v, x) ==
    LET interval == getInterval(g, x) IN
    IF Indeterminate \in
         {fv[interval], fv[interval + 1], f2v[interval], f2v[interval + 1]}
    THEN Indeterminate
    ELSE CalculateDerivativeOn(g, fv, f2v, interval, x)

CallGetInterval(x) ==
    /\ Running
    /\ IF Size(_r) >= 2
       THEN last' = Call("getInterval", <<x>>, getInterval(_r, x), "none")
       ELSE \* reads _r[0] or _r[size-2] outside the vector
            last' = Call("getInterval", <<x>>, 0, "ub")
    /\ UNCHANGED <<_r, _f, _f2, _boundaries, M, nops>>

CallCalculate(x) ==
    /\ Running
    /\ IF Size(_r) >= 2 /\ CoefReadable(_r, _f, _f2, x)
       THEN last' = Call("Calculate", <<x>>, Calculate(_r, _f, _f2, x), "none")
       ELSE \* reads _r, _f or _f2 outside the vector
            last' = Call("Calculate", <<x>>, 0, "ub")
    /\ UNCHANGED <<_r, _f, _f2, _boundaries, M, nops>>

CallCalculateDerivative(x) ==
    /\ Running
    /\ IF Size(_r) >= 2 /\ CoefReadable(_r, _f, _f2, x)
       THEN last' = Call("CalculateDerivative", <<x>>,
                         CalculateDerivative(_r, _f, _f2, x), "none")
       ELSE last' = Call("CalculateDerivative", <<x>>, 0, "ub")
    /\ UNCHANGED <<_r, _f, _f2, _boundaries, M, nops>>

setSplineData(f, f2) ==
    /\ Running
    /\ _f' = f
    /\ _f2' = f2
    /\ last' = Call("setSplineData", <<f, f2>>, 0, "none")
    /\ UNCHANGED <<_r, _boundaries, M, nops>>

---------------------------------------------------------------------------
(* The fitting matrix: CubicSpline::AddToFitMatrix, AddBCToFitMatrix       *)

ZeroMatrix(s1, s2) ==
    [size1 |-> s1, size2 |-> s2,
     data  |-> [p \in (0 .. s1 - 1) \X (0 .. s2 - 1) |-> Zero]]

\* M(row, col) = v
MSet(m, row, col, v) == [m EXCEPT !.data[<<row, col>>] = v]
\* M(row, col) += v
MAddTo(m, row, col, v) == [m EXCEPT !.data[<<row, col>>] = Add(@, v)]

\* the point row with = in place of +=
AddToFitMatrixOp_assign(m, g, x, offset1, offset2, scale) ==
    LET spi == getInterval(g, x)
        m1  == MSet(m, offset1, offset2 + spi, Mul(A(g, x), scale))
        m2  == MSet(m1, offset1, offset2 + spi + 1, Mul(B(g, x), scale))
        m3  == MSet(m2, offset1, offset2 + spi + Size(g), Mul(C(g, x), scale))
    IN  MSet(m3, offset1, offset2 + spi + Size(g) + 1, Mul(D(g, x), scale))

\* AddToFitMatrix(M, double x, offset1, offset2, scale)
AddToFitMatrixOp(m, g, x, offset1, offset2, scale) ==
    LET spi == getInterval(g, x)
        m1  == MAddTo(m, offset1, offset2 + spi, Mul(A(g, x), scale))
        m2  == MAddTo(m1, offset1, offset2 + spi + 1, Mul(B(g, x), scale))
        m3  == MAddTo(m2, offset1, offset2 + spi + Size(g), Mul(C(g, x), scale))
    IN  MAddTo(m3, offset1, offset2 + spi + Size(g) + 1, Mul(D(g, x), scale))

\* AddToFitMatrix(M, vector x, offset1, offset2): the loop from row i on
RECURSIVE AddToFitMatrixVecOp(_, _, _, _, _, _)
AddToFitMatrixVecOp(m, g, x, i, offset1, offset2) ==
    IF i < Size(x)
    THEN LET spi == getInterval(g, x[i])
             m1  == MSet(m, offset1 + i, offset2 + spi, A(g, x[i]))
             m2  == MSet(m1, offset1 + i, offset2 + spi + 1, B(g, x[i]))
             m3  == MSet(m2, offset1 + i, offset2 + spi + Size(g), C(g, x[i]))
             m4  == MSet(m3, offset1 + i, offset2 + spi + Size(g) + 1, D(g, x[i]))
         IN  AddToFitMatrixVecOp(m4, g, x, i + 1, offset1, offset2)
    ELSE m

A_prime_l(g, i) == Div(Neg(One), Sub(g[i + 1], g[i]))
B_prime_l(g, i) == Div(One, Sub(g[i + 1], g[i]))
C_prime_l(g, i) == Mul(Sixth, Sub(g[i + 1], g[i]))
\* D_prime_l with the weight of C_prime_l
D_prime_l_sixth(g, i) == Mul(Sixth, Sub(g[i + 1], g[i]))
D_prime_l(g, i) == Mul(Third, Sub(g[i + 1], g[i]))
A_prime_r(g, i) == Div(Neg(One), Sub(g[i + 2], g[i + 1]))
B_prime_r(g, i) == Div(One, Sub(g[i + 2], g[i + 1]))
C_prime_r(g, i) == Neg(Mul(Third, Sub(g[i + 2], g[i + 1])))
D_prime_r(g, i) == Neg(Mul(Sixth, Sub(g[i + 2], g[i + 1])))

\* for (size_t i = 0; i < _r.size() - 2; ++i): the continuity rows from i on
RECURSIVE ContinuityRows(_, _, _, _, _)
ContinuityRows(m, g, i, offset1, offset2) ==
    IF i < Size(g) - 2
    THEN LET n  == Size(g)
             m1 == MSet(m, offset1 + i + 1, offset2 + i, A_prime_l(g, i))
             m2 == MSet(m1, offset1 + i + 1, offset2 + i + 1,
                        Sub(B_prime_l(g, i), A_prime_r(g, i)))
             m3 == MSet(m2, offset1 + i + 1, offset2 + i + 2, Neg(B_prime_r(g, i)))
             m4 == MSet(m3, offset1 + i + 1, offset2 + n + i, C_prime_l(g, i))
             m5 == MSet(m4, offset1 + i + 1, offset2 + n + i + 1,
                        Sub(D_prime_l(g, i), C_prime_r(g, i)))
             m6 == MSet(m5, offset1 + i + 1, offset2 + n + i + 2, Neg(D_prime_r(g, i)))
         IN  ContinuityRows(m6, g, i + 1, offset1, offset2)
    ELSE m

\* enum eBoundary
splineNormal   == 0
splinePeriodic == 1

\* the boundary rows with the natural condition put on f, not on f2
BoundaryRows_on_f(m, g, bc, offset1, offset2) ==
    LET n == Size(g) IN
    IF bc = splineNormal
    THEN MSet(MSet(m, offset1, offset2, One),
              offset1 + n - 1, offset2 + n - 1, One)
    ELSE MSet(MSet(MSet(MSet(m, offset1, offset2, One),
                        offset1, offset2 + n - 1, Neg(One)),
                   offset1 + n - 1, offset2 + n, One),
              offset1 + n - 1, offset2 + 2 * n - 1, Neg(One))

\* the boundary rows with the last row one row too far
BoundaryRows_row_n(m, g, bc, offset1, offset2) ==
    LET n == Size(g) IN
    IF bc = splineNormal
    THEN MSet(MSet(m, offset1, offset2 + n, One),
              offset1 + n, offset2 + 2 * n - 1, One)
    ELSE MSet(MSet(MSet(MSet(m, offset1, offset2, One),
                        offset1, offset2 + n - 1, Neg(One)),
                   offset1 + n, offset2 + n, One),
              offset1 + n, offset2 + 2 * n - 1, Neg(One))

\* switch (_boundaries)
BoundaryRows(m, g, bc, offset1, offset2) ==
    LET n == Size(g) IN
    IF bc = splineNormal
    THEN MSet(MSet(m, offset1, offset2 + n, One),
              offset1 + n - 1, offset2 + 2 * n - 1, One)
    ELSE MSet(MSet(MSet(MSet(m, offset1, offset2, One),
                        offset1, offset2 + n - 1, Neg(One)),
                   offset1 + n - 1, offset2 + n, One),
              offset1 + n - 1, offset2 + 2 * n - 1, Neg(One))

AddBCToFitMatrixOp(m, g, bc, offset1, offset2) ==
    BoundaryRows(ContinuityRows(m, g, 0, offset1, offset2), g, bc, offset1, offset2)

\* rows first .. first+rows-1 and columns offset2 .. offset2+2n-1 are in M
Fits(m, g, first, rows, offset2) ==
    /\ first + rows <= m.size1
    /\ offset2 + 2 * Size(g) <= m.size2

AddToFitMatrix(x, offset1, offset2, scale) ==
    /\ Running /\ nops < MaxOps
    /\ Size(_r) >= 2 /\ Fits(M, _r, offset1, 1, offset2)
    /\ M' = AddToFitMatrixOp(M, _r, x, offset1, offset2, scale)
    /\ nops' = nops + 1
    /\ last' = Call("AddToFitMatrix", <<x, offset1, offset2, scale>>, 0, "none")
    /\ UNCHANGED <<_r, _f, _f2, _boundaries>>

AddToFitMatrixVec(x, offset1, offset2) ==
    /\ Running /\ nops < MaxOps
    /\ Size(_r) >= 2 /\ Fits(M, _r, offset1, Size(x), offset2)
    /\ M' = AddToFitMatrixVecOp(M, _r, x, 0, offset1, offset2)
    /\ nops' = nops + 1
    /\ last' = Call("AddToFitMatrixVec", <<x, offset1, offset2>>, 0, "none")
    /\ UNCHANGED <<_r, _f, _f2, _boundaries>>

AddBCToFitMatrix(offset1, offset2) ==
    /\ Running /\ nops < MaxOps
    /\ Size(_r) >= 2 /\ Fits(M, _r, offset1, Size(_r), offset2)
    /\ M' = AddBCToFitMatrixOp(M, _r, _boundaries, offset1, offset2)
    /\ nops' = nops + 1
    /\ last' = Call("AddBCToFitMatrix", <<offset1, offset2>>, 0, "none")
    /\ UNCHANGED <<_r, _f, _f2, _boundaries>>

setBC(bc) ==
    /\ Running
    /\ _boundaries' = bc
    /\ last' = Call("setBC", <<bc>>, 0, "none")
    /\ UNCHANGED <<_r, _f, _f2, M, nops>>

---------------------------------------------------------------------------
(* linalg_invert (src/libtools/linalg/gsl/invert.cc).  The caller's        *)
(* matrices are objects of mem, so that the two reference parameters A and *)
(* V can name one object.  The GSL and ublas routines the function calls   *)
(* are modelled by their results with the error handler switched off.      *)

\* the content of an element after a division by a zero pivot (inf or NaN)
NonFinite == "nonfinite"

Finite(m) ==
    \A p \in DOMAIN m.data : m.data[p] # Indeterminate /\ m.data[p] # NonFinite

AbsQ(q) == IF q[1] < 0 THEN Neg(q) ELSE q

\* the number of doubles a matrix holds
StorageSize(m) == m.size1 * m.size2

\* V.resize(N, N, false): the storage is kept when its size does not
\* change, and is otherwise allocated anew and not initialised
ResizeMatrixNoPreserve(m, n) ==
    IF StorageSize(m) = n * n
    THEN [m EXCEPT !.size1 = n, !.size2 = n]
    ELSE [size1 |-> n, size2 |-> n,
          data  |-> [p \in (0 .. n - 1) \X (0 .. n - 1) |-> Indeterminate]]

\* gsl_permutation_alloc leaves the permutation to the caller, the LU
\* decomposition starts from the identity
IdentityPerm(n) == [null |-> FALSE, data |-> [i \in 0 .. n - 1 |-> i]]
\* the null pointer a failed gsl_permutation_alloc returns
NoPerm == [null |-> TRUE, data |-> [i \in {} |-> i]]

\* the first row i >= j with the largest |m(i, j)|
RECURSIVE PivotRow(_, _, _, _, _)
PivotRow(m, n, j, i, best) ==
    IF i >= n THEN best
    ELSE PivotRow(m, n, j, i + 1,
                  IF Less(AbsQ(m.data[<<best, j>>]), AbsQ(m.data[<<i, j>>]))
                  THEN i ELSE best)

SwapRows(m, i, j) ==
    LET d == m.data IN
    [m EXCEPT !.data = [p \in DOMAIN d |->
                          IF p[1] = i THEN d[<<j, p[2]>>]
                          ELSE IF p[1] = j THEN d[<<i, p[2]>>]
                          ELSE d[p]]]

\* column j is divided by the pivot and the rows below it are reduced
Eliminate(m, j) ==
    LET d == m.data IN
    IF d[<<j, j>>] = Zero THEN m
    ELSE [m EXCEPT !.data = [p \in DOMAIN d |->
            IF p[1] > j /\ p[2] = j THEN Div(d[p], d[<<j, j>>])
            ELSE IF p[1] > j /\ p[2] > j
                 THEN Sub(d[p], Mul(Div(d[<<p[1], j>>], d[<<j, j>>]), d[<<j, p[2]>>]))
                 ELSE d[p]]]

\* gsl_linalg_LU_decomp(&A_view.matrix, perm, &s) from column j on: the
\* matrix is overwritten by its factors L (below the diagonal) and U
RECURSIVE LU_decomp(_, _, _)
LU_decomp(st, n, j) ==
    IF j >= n - 1 THEN st
    ELSE LET i_pivot == PivotRow(st.lu, n, j, j + 1, j)
             swapped == IF i_pivot = j THEN st.lu ELSE SwapRows(st.lu, j, i_pivot)
             p       == IF i_pivot = j THEN st.perm
                        ELSE [st.perm EXCEPT !.data[j] = st.perm.data[i_pivot],
                                             !.data[i_pivot] = st.perm.data[j]]
         IN  LU_decomp([lu   |-> Eliminate(swapped, j),
                        perm |-> p,
                        s    |-> IF i_pivot = j THEN st.s ELSE -st.s], n, j + 1)

Singular(lu, n) == \E i \in 0 .. n - 1 : lu.data[<<i, i>>] = Zero

RECURSIVE SumQ(_, _, _)
\* the sum of term[k] for k in lo..hi
SumQ(term, lo, hi) ==
    IF lo > hi THEN Zero ELSE Add(term[lo], SumQ(term, lo + 1, hi))

\* L y = b, L with a unit diagonal, from row i on
RECURSIVE ForwardSubst(_, _, _, _)
ForwardSubst(lu, n, y, i) ==
    IF i >= n THEN y
    ELSE ForwardSubst(lu, n,
           [y EXCEPT ![i] = Sub(@, SumQ([k \in 0 .. i - 1 |->
                                          Mul(lu.data[<<i, k>>], y[k])], 0, i - 1))],
           i + 1)

\* U x = y, from row i up
RECURSIVE BackSubst(_, _, _, _)
BackSubst(lu, n, x, i) ==
    IF i < 0 THEN x
    ELSE BackSubst(lu, n,
           [x EXCEPT ![i] = Div(Sub(@, SumQ([k \in i + 1 .. n - 1 |->
                                              Mul(lu.data[<<i, k>>], x[k])], i + 1, n - 1)),
                                lu.data[<<i, i>>])],
           i - 1)

\* gsl_linalg_LU_invert(&A_view.matrix, perm, &V_view.matrix) of a
\* non-singular matrix: column c of the inverse solves L U x = P e_c
LU_invert(lu, perm, n) ==
    LET col(c) == BackSubst(lu, n,
                    ForwardSubst(lu, n,
                      [i \in 0 .. n - 1 |-> IF perm.data[i] = c THEN One ELSE Zero], 0),
                    n - 1)
    IN  [size1 |-> n, size2 |-> n,
         data  |-> [p \in (0 .. n - 1) \X (0 .. n - 1) |-> col(p[2])[p[1]]]]

\* the activation of linalg_invert: the statement it is at, its reference
\* parameters, its locals, and the exception it left with
Activation(pc, a, v, handler, n, work, perm, status, err) ==
    [pc |-> pc, A |-> a, V |-> v, handler |-> handler, N |-> n, work |-> work,
     perm |-> perm, status |-> status, err |-> err]

\* the caller's matrix objects
Objects == {"X", "Y"}

\* the function can be called when no call is running and the process lives
Callable == inv.pc \in {"idle", "returned", "thrown"}

\* the call with A bound to object a and V to object v; atEntry keeps what
\* the handler and the matrix A were when the call was made
linalg_invert(a, v) ==
    /\ Callable
    /\ ncalls < MaxCalls
    /\ Finite(mem[a])
    /\ mem[a].size1 = mem[a].size2
    /\ ncalls' = ncalls + 1
    /\ inv' = Activation("L33", a, v, "unset", 0, ZeroMatrix(0, 0), NoPerm, "unset", "none")
    /\ atEntry' = [handler |-> gsl_error_handler, A |-> mem[a]]
    /\ UNCHANGED <<gsl_error_handler, mem>>
    /\ UNCHANGED svars

\* gsl_error_handler_t *handler = gsl_set_error_handler_off();
gsl_set_error_handler_off ==
    /\ inv.pc = "L33"
    /\ gsl_error_handler' = "off"
    /\ inv' = [inv EXCEPT !.pc = "L38", !.handler = gsl_error_handler,
                          !.N = mem[inv.A].size1]
    /\ UNCHANGED <<mem, ncalls, atEntry>>
    /\ UNCHANGED svars

\* ub::matrix<double> work = A;  the allocation of the copy can fail
CopyToWork ==
    /\ inv.pc = "L38"
    /\ \/ inv' = [inv EXCEPT !.pc = "L39", !.work = mem[inv.A]]
       \/ /\ StorageSize(mem[inv.A]) > 0
          /\ inv' = [inv EXCEPT !.pc = "thrown", !.err = "bad_alloc"]
    /\ UNCHANGED <<gsl_error_handler, mem, ncalls, atEntry>>
    /\ UNCHANGED svars

\* V.resize(N, N, false);  a new storage is allocated when the size changes
ResizeV ==
    /\ inv.pc = "L39"
    /\ \/ /\ mem' = [mem EXCEPT ![inv.V] = ResizeMatrixNoPreserve(@, inv.N)]
          /\ inv' = [inv EXCEPT !.pc = "L42"]
       \/ /\ StorageSize(mem[inv.V]) # inv.N * inv.N
          /\ inv.N > 0
          /\ inv' = [inv EXCEPT !.pc = "thrown", !.err = "bad_alloc"]
          /\ UNCHANGED mem
    /\ UNCHANGED <<gsl_error_handler, ncalls, atEntry>>
    /\ UNCHANGED svars

\* gsl_matrix_view_array(&work(0,0), N, N) and (&V(0,0), N, N): element
\* (0,0) of an empty matrix does not exist, a ublas built with its checks
\* throws bad_index, one built without them goes on
gsl_matrix_view_array ==
    /\ inv.pc = "L42"
    /\ \/ inv' = [inv EXCEPT !.pc = "L44"]
       \/ /\ inv.N = 0
          /\ inv' = [inv EXCEPT !.pc = "thrown", !.err = "bad_index"]
    /\ UNCHANGED <<gsl_error_handler, mem, ncalls, atEntry>>
    /\ UNCHANGED svars

\* gsl_permutation_alloc(N): with the handler off a failed allocation, or
\* a length 0 the library refuses, returns a null pointer
gsl_permutation_alloc ==
    /\ inv.pc = "L44"
    /\ \/ inv' = [inv EXCEPT !.pc = "L47", !.perm = IdentityPerm(inv.N)]
       \/ inv' = [inv EXCEPT !.pc = "L47", !.perm = NoPerm]
    /\ UNCHANGED <<gsl_error_handler, mem, ncalls, atEntry>>
    /\ UNCHANGED svars

\* gsl_linalg_LU_decomp(&A_view.matrix, perm, &s): reads perm->size, which
\* takes the process down through a null perm; it overwrites work, not A
gsl_linalg_LU_decomp ==
    /\ inv.pc = "L47"
    /\ IF inv.perm.null
       THEN inv' = [inv EXCEPT !.pc = "crashed", !.err = "ub"]
       ELSE LET st == LU_decomp([lu |-> inv.work, perm |-> inv.perm, s |-> 1],
                                inv.N, 0)
            IN  inv' = [inv EXCEPT !.pc = "L50", !.work = st.lu, !.perm = st.perm]
    /\ UNCHANGED <<gsl_error_handler, mem, ncalls, atEntry>>
    /\ UNCHANGED svars

\* int status = gsl_linalg_LU_invert(&A_view.matrix, perm, &V_view.matrix):
\* of a singular matrix the library either reports GSL_EDOM and leaves V,
\* or divides by the zero pivot and returns 0
gsl_linalg_LU_invert ==
    /\ inv.pc = "L50"
    /\ IF Singular(inv.work, inv.N)
       THEN \/ /\ inv' = [inv EXCEPT !.pc = "L52", !.status = "GSL_EDOM"]
               /\ UNCHANGED mem
            \/ /\ inv' = [inv EXCEPT !.pc = "L52", !.status = "GSL_SUCCESS"]
               /\ mem' = [mem EXCEPT ![inv.V] =
                            [@ EXCEPT !.data = [p \in DOMAIN @ |-> NonFinite]]]
       ELSE /\ inv' = [inv EXCEPT !.pc = "L52", !.status = "GSL_SUCCESS"]
            /\ mem' = [mem EXCEPT ![inv.V] = LU_invert(inv.work, inv.perm, inv.N)]
    /\ UNCHANGED <<gsl_error_handler, ncalls, atEntry>>
    /\ UNCHANGED svars

\* gsl_set_error_handler(handler);  the status is dropped and the function
\* returns
gsl_set_error_handler ==
    /\ inv.pc = "L52"
    /\ gsl_error_handler' = inv.handler
    /\ inv' = [inv EXCEPT !.pc = "returned"]
    /\ UNCHANGED <<mem, ncalls, atEntry>>
    /\ UNCHANGED svars

---------------------------------------------------------------------------
(* The inputs the calls are made with.                                     *)

GridMins == {Dbl(0), Dbl(1)}
GridMaxs == {Dbl(k) : k \in 0 .. MaxX}
Steps    == {Dbl(-1), Q(1, 4), Dbl(1), Dbl(2)}

\* the queries made on grid g: its points, the middle of each interval, and
\* one point on each side of the domain
QueriesFor(g) ==
    IF Size(g) = 0 THEN {Zero}
    ELSE {g[i] : i \in DOMAIN g}
         \cup {Mul(Half, Add(g[i], g[i + 1])) : i \in 0 .. Size(g) - 2}
         \cup {Sub(g[0], One), Add(g[Size(g) - 1], One)}

Ramp(n)  == [i \in 0 .. n - 1 |-> Dbl(i + 1)]
Wave(n)  == [i \in 0 .. n - 1 |-> IF i % 2 = 0 THEN Dbl(2) ELSE Dbl(-1)]
\* the (f, f2) pairs given to setSplineData: of one size, and of two sizes
CoefPairs ==
    {<<Wave(n), Ramp(n)>> : n \in 2 .. MaxN}
    \cup {<<Ramp(2), Ramp(1)>>, <<Ramp(1), Ramp(3)>>}

NoMatrix == [size1 |-> 0, size2 |-> 0, data |-> [p \in {} |-> Zero]]

\* no linalg_invert call is made while the spline is exercised
NoInvert ==
    /\ gsl_error_handler = "abort"
    /\ mem = [o \in Objects |-> ZeroMatrix(0, 0)]
    /\ inv = Activation("idle", "X", "Y", "unset", 0, ZeroMatrix(0, 0), NoPerm,
                        "unset", "none")
    /\ ncalls = 0
    /\ atEntry = [handler |-> "abort", A |-> ZeroMatrix(0, 0)]

\* CubicSpline() : _boundaries(splineNormal) {}
Constructed ==
    /\ _r = EmptyVec
    /\ _f = EmptyVec
    /\ _f2 = EmptyVec
    /\ _boundaries = splineNormal
    /\ M = NoMatrix
    /\ nops = 0
    /\ last = Call("CubicSpline", <<>>, 0, "none")

Init == Constructed /\ NoInvert

Next ==
    \/ \E min \in GridMins, max \in GridMaxs, h \in Steps : GenerateGrid(min, max, h)
    \/ \E x \in QueriesFor(_r) : CallGetInterval(x)
    \/ \E x \in QueriesFor(_r) : CallCalculate(x)
    \/ \E x \in QueriesFor(_r) : CallCalculateDerivative(x)
    \/ \E p \in CoefPairs : setSplineData(p[1], p[2])

Spec == Init /\ [][Next /\ UNCHANGED ivars]_vars

---------------------------------------------------------------------------
(* Assembly of a fitting matrix (specification SpecFit): the spline is in  *)
(* the state a GenerateGrid call left it in, the caller's matrix is zero   *)
(* and has room for the blocks of two splines.                             *)

FitRows == 2 * MaxFitN + 2
FitCols == 4 * MaxFitN

FitSteps   == {Dbl(1), Dbl(2)}
\* the (offset1, offset2) pairs of the calls
Offsets    == {<<0, 0>>, <<1, 1>>}
Scales     == {Dbl(1), Dbl(-2)}
\* a point inside the first interval and a point beyond the last grid point
FitPoints(g) == {Mul(Half, Add(g[0], g[1])), Add(g[Size(g) - 1], One)}
\* the data points of a batch call
FitVectors(g) ==
    {[i \in 0 .. 1 |-> IF i = 0 THEN Mul(Half, Add(g[0], g[1])) ELSE g[Size(g) - 1]]}

InitFit ==
    \E max \in GridMaxs, h \in FitSteps :
        LET n == vec_size(Zero, max, h) IN
        /\ Less(Zero, max)
        /\ n >= 2 /\ n <= MaxFitN
        /\ _r = GridOf(Zero, max, h)
        /\ _f = ResizeNoPreserve(EmptyVec, n)
        /\ _f2 = ResizeNoPreserve(EmptyVec, n)
        /\ _boundaries = splineNormal
        /\ M = ZeroMatrix(FitRows, FitCols)
        /\ nops = 0
        /\ last = Call("GenerateGrid", <<Zero, max, h>>, n, "none")
        /\ NoInvert

NextFit ==
    \/ \E bc \in {splineNormal, splinePeriodic} : setBC(bc)
    \/ \E x \in FitPoints(_r), o \in Offsets, scale \in Scales :
          AddToFitMatrix(x, o[1], o[2], scale)
    \/ \E x \in FitVectors(_r), o \in Offsets : AddToFitMatrixVec(x, o[1], o[2])
    \/ \E o \in Offsets : AddBCToFitMatrix(o[1], o[2])

SpecFit == InitFit /\ [][NextFit /\ UNCHANGED ivars]_vars

---------------------------------------------------------------------------
(* Matrix inversion (specification SpecInvert): the caller owns two        *)
(* matrices, X filled and Y empty, has one of three error handlers         *)
(* installed, and calls linalg_invert with any two of its matrices.        *)

\* the handlers the caller can have installed: the library's default, which
\* aborts, one of its own, or none
Handlers == {"abort", "caller", "off"}

SquareMatrices(n) ==
    {[size1 |-> n, size2 |-> n, data |-> d] :
        d \in [(0 .. n - 1) \X (0 .. n - 1) -> {Zero, One}]}

InitInvert ==
    /\ Constructed
    /\ gsl_error_handler \in Handlers
    /\ \E n \in 1 .. MaxDim : \E x \in SquareMatrices(n) :
           mem = [o \in Objects |-> IF o = "X" THEN x ELSE ZeroMatrix(0, 0)]
    /\ inv = Activation("idle", "X", "Y", "unset", 0, ZeroMatrix(0, 0), NoPerm,
                        "unset", "none")
    /\ ncalls = 0
    /\ atEntry = [handler |-> gsl_error_handler, A |-> mem["X"]]

NextInvert ==
    \/ \E a \in Objects, v \in Objects : linalg_invert(a, v)
    \/ gsl_set_error_handler_off
    \/ CopyToWork
    \/ ResizeV
    \/ gsl_matrix_view_array
    \/ gsl_permutation_alloc
    \/ gsl_linalg_LU_decomp
    \/ gsl_linalg_LU_invert
    \/ gsl_set_error_handler

SpecInvert == InitInvert /\ [][NextInvert]_vars

---------------------------------------------------------------------------
(* Properties of the grid and of the evaluators (specification Spec).      *)

Floor(q) == q[1] \div q[2]
Ceil(q)  == -((-q[1]) \div q[2])

IsCall(op) == last.op = op /\ last.err = "none"
ValidGrid(g) == Size(g) >= 2 /\ StrictlyIncreasing(g)
\* the arguments of a GenerateGrid call are a range: step > 0 and max > min
ValidRange(args) == Less(Zero, args[3]) /\ Less(args[1], args[2])

C2_ceil ==
    (IsCall("GenerateGrid") /\ ValidRange(last.args)) =>
        /\ last.ret = Size(_r)
        /\ last.ret = Ceil(Div(Sub(last.args[2], last.args[1]), last.args[3]))

\* C2 amended: GenerateGrid(min, max, step) with min < max and step > 0
\* returns the number of points it stored, and that is
\* 1 + floor((max-min)/step).
C2_floor_plus_one ==
    (IsCall("GenerateGrid") /\ ValidRange(last.args)) =>
        /\ last.ret = Size(_r)
        /\ last.ret = 1 + Floor(Div(Sub(last.args[2], last.args[1]), last.args[3]))

\* GenerateGrid(0, 1, 0.25) returned 5
C2_witness ==
    /\ IsCall("GenerateGrid")
    /\ last.args = <<Dbl(0), Dbl(1), Q(1, 4)>>
    /\ last.ret = 5
    /\ Size(_r) = 5

\* C3: after GenerateGrid(min, max, step) with step > 0 and max > min the
\* grid is strictly increasing, has at least 2 points, starts at min and
\* ends at max.
C3_grid_valid ==
    (IsCall("GenerateGrid") /\ ValidRange(last.args)) =>
        /\ Size(_r) >= 2
        /\ StrictlyIncreasing(_r)
        /\ _r[0] = last.args[1]
        /\ _r[Size(_r) - 1] = last.args[2]

\* C4: GenerateGrid(min, max, step) with step <= 0 or max <= min fails with
\* InvalidRange and leaves the grid, f and f2 as they were.
C4_invalid_range ==
    [][(last'.op = "GenerateGrid" /\ ~ValidRange(last'.args)) =>
          /\ last'.err = "InvalidRange"
          /\ UNCHANGED <<_r, _f, _f2>>]_vars

Determinate(v) == \A i \in DOMAIN v : v[i] # Indeterminate

\* C8: with a strictly increasing grid of n >= 2 points and coefficients f,
\* f2 of n entries each, Calculate(r[i]) returns f[i] for every grid index
\* i, the last one included, and no Calculate call changes the grid, f or f2.
C8_calculate_at_knots ==
    [][(last'.op = "Calculate") =>
          /\ UNCHANGED <<_r, _f, _f2>>
          /\ (/\ ValidGrid(_r)
              /\ Size(_f) = Size(_r) /\ Size(_f2) = Size(_r)
              /\ Determinate(_f) /\ Determinate(_f2)) =>
                 /\ last'.err = "none"
                 /\ \A i \in DOMAIN _r :
                        last'.args[1] = _r[i] => last'.ret = _f[i]]_vars

\* Calculate was called at the last grid point, with f2 non-zero there
C8_witness ==
    /\ IsCall("Calculate")
    /\ ValidGrid(_r) /\ Size(_r) >= 3
    /\ Size(_f) = Size(_r) /\ Size(_f2) = Size(_r)
    /\ Determinate(_f) /\ Determinate(_f2)
    /\ last.args[1] = _r[Size(_r) - 1]
    /\ _f2[Size(_r) - 2] # Zero /\ _f2[Size(_r) - 1] # Zero
    /\ last.ret = _f[Size(_r) - 1]

\* C9: after any GenerateGrid and setSplineData calls f and f2 have as many
\* entries as the grid, and no Calculate or CalculateDerivative call reads
\* them outside 0..n-1.
C9_sizes_aligned ==
    /\ (last.op \in {"GenerateGrid", "setSplineData"} /\ last.err = "none") =>
           (Size(_f) = Size(_r) /\ Size(_f2) = Size(_r))
    /\ (last.op \in {"Calculate", "CalculateDerivative"} /\ Size(_r) >= 2) =>
           last.err = "none"

---------------------------------------------------------------------------
(* Properties of the matrix assembly (specification SpecFit).              *)

Entry(m, row, col) == m.data[<<row, col>>]

\* p is an entry of rows first..first+rows-1, columns offset2..offset2+cols-1
InBlock(p, first, rows, offset2, cols) ==
    /\ p[1] >= first /\ p[1] < first + rows
    /\ p[2] >= offset2 /\ p[2] < offset2 + cols

\* C5: AddToFitMatrix(M, x, offset1, offset2, scale) with i = getInterval(x)
\* adds scale*A(x), scale*B(x), scale*C(x), scale*D(x) to row offset1 at
\* columns offset2+i, offset2+i+1, offset2+n+i, offset2+n+i+1 and leaves
\* every other entry of M as it was.
C5_point_row ==
    [][(last'.op = "AddToFitMatrix") =>
          LET x      == last'.args[1]
              o1     == last'.args[2]
              o2     == last'.args[3]
              scale  == last'.args[4]
              n      == Size(_r)
              i      == getInterval(_r, x)
              w(col) == IF col = o2 + i THEN Mul(scale, A(_r, x))
                        ELSE IF col = o2 + i + 1 THEN Mul(scale, B(_r, x))
                        ELSE IF col = o2 + n + i THEN Mul(scale, C(_r, x))
                        ELSE IF col = o2 + n + i + 1 THEN Mul(scale, D(_r, x))
                        ELSE Zero
          IN  \A p \in DOMAIN M.data :
                  M'.data[p] = IF p[1] = o1 THEN Add(M.data[p], w(p[2]))
                               ELSE M.data[p]]_vars

\* the same point was added twice to one row, and its weights have added up
C5_witness ==
    /\ IsCall("AddToFitMatrix") /\ nops = 2
    /\ LET x     == last.args[1]
           o1    == last.args[2]
           o2    == last.args[3]
           scale == last.args[4]
           i     == getInterval(_r, x)
           c     == Mul(scale, C(_r, x))
       IN  /\ c # Zero /\ scale # One
           /\ Entry(M, o1, o2 + Size(_r) + i) = Add(c, c)

OtherSplines ==
    {<<GridOf(Zero, max, h), bc>> :
        max \in {x \in GridMaxs : Less(Zero, x)}, h \in FitSteps,
        bc \in {splineNormal, splinePeriodic}}

\* the block of spline (g, bc): its n continuity and boundary rows from row
\* offset1 on, and one row for a data point after them
Assemble(m, g, bc, offset1, offset2) ==
    AddToFitMatrixOp(AddBCToFitMatrixOp(m, g, bc, offset1, offset2),
                     g, Mul(Half, Add(g[0], g[1])), offset1 + Size(g), offset2, One)

\* the spline of the state in the block at (0, 0) and any other spline in the
\* block below and to the right of it: either order gives the same matrix
TwoSplinesCommute ==
    \A s \in OtherSplines :
        LET g  == s[1]
            b1 == Size(_r) + 1
            b2 == 2 * Size(_r)
        IN  (Size(g) >= 2 /\ Fits(M, g, b1, Size(g) + 1, b2)) =>
                Assemble(Assemble(M, _r, _boundaries, 0, 0), g, s[2], b1, b2)
                  = Assemble(Assemble(M, g, s[2], b1, b2), _r, _boundaries, 0, 0)

\* a step of one of the three assembly calls changes M only inside the
\* block of the call, and AddBCToFitMatrix leaves no row of its block empty
BlockFrameStep ==
    /\ (last'.op = "AddBCToFitMatrix") =>
          LET o1 == last'.args[1]
              o2 == last'.args[2]
              n  == Size(_r)
          IN  /\ \A p \in DOMAIN M.data :
                     ~InBlock(p, o1, n, o2, 2 * n) => M'.data[p] = M.data[p]
              /\ \A row \in o1 .. o1 + n - 1 :
                     \E col \in o2 .. o2 + 2 * n - 1 : Entry(M', row, col) # Zero
    /\ (last'.op = "AddToFitMatrix") =>
          \A p \in DOMAIN M.data :
              ~InBlock(p, last'.args[2], 1, last'.args[3], 2 * Size(_r))
                  => M'.data[p] = M.data[p]
    /\ (last'.op = "AddToFitMatrixVec") =>
          \A p \in DOMAIN M.data :
              ~InBlock(p, last'.args[2], Size(last'.args[1]),
                       last'.args[3], 2 * Size(_r))
                  => M'.data[p] = M.data[p]

\* C7: AddBCToFitMatrix(M, offset1, offset2) writes each of the n rows
\* offset1..offset1+n-1 and nothing outside these rows and the columns
\* offset2..offset2+2n-1; both AddToFitMatrix forms write only to these
\* columns of their rows; so two splines in blocks that share no row and no
\* column give the same matrix in either order.
C7_block_frame ==
    /\ [][BlockFrameStep]_vars
    /\ [](last.op = "AddBCToFitMatrix" => TwoSplinesCommute)

\* AddBCToFitMatrix wrote its rows into a matrix that held a data row
\* outside its block, and the data row is still there
C7_witness ==
    /\ IsCall("AddBCToFitMatrix") /\ nops = 2
    /\ last.args = <<1, 1>>
    /\ \E col \in 0 .. M.size2 - 1 : Entry(M, 0, col) # Zero
    /\ \A row \in 1 .. Size(_r) : \E col \in 1 .. 2 * Size(_r) :
           Entry(M, row, col) # Zero

\* sum over k >= k0 of M(row, offset2+k) fv[k] + M(row, offset2+n+k) f2v[k]
RECURSIVE RowDot(_, _, _, _, _, _)
RowDot(m, row, offset2, fv, f2v, k0) ==
    IF k0 < Size(fv)
    THEN Add(Add(Mul(Entry(m, row, offset2 + k0), fv[k0]),
                 Mul(Entry(m, row, offset2 + Size(fv) + k0), f2v[k0])),
             RowDot(m, row, offset2, fv, f2v, k0 + 1))
    ELSE Zero

\* C10: for every i in 0..n-3 the row offset1+i+1 written by
\* AddBCToFitMatrix holds the coefficients of the derivative of the piece on
\* interval i at its right end r[i+1] minus the derivative of the piece on
\* interval i+1 at its left end r[i+1], as Aprime..Dprime give them; on a
\* zero matrix the row applied to (f, f2) is the difference of the two.
C10_continuity_rows ==
    (last.op = "AddBCToFitMatrix") =>
        LET o1 == last.args[1]
            o2 == last.args[2]
            n  == Size(_r)
        IN  \A i \in 0 .. n - 3 :
              LET row == o1 + i + 1
                  k   == _r[i + 1]
              IN  /\ Entry(M, row, o2 + i) = AprimeOn(_r, i, k)
                  /\ Entry(M, row, o2 + i + 1) =
                         Sub(BprimeOn(_r, i, k), AprimeOn(_r, i + 1, k))
                  /\ Entry(M, row, o2 + i + 2) = Neg(BprimeOn(_r, i + 1, k))
                  /\ Entry(M, row, o2 + n + i) = CprimeOn(_r, i, k)
                  /\ Entry(M, row, o2 + n + i + 1) =
                         Sub(DprimeOn(_r, i, k), CprimeOn(_r, i + 1, k))
                  /\ Entry(M, row, o2 + n + i + 2) = Neg(DprimeOn(_r, i + 1, k))
                  /\ nops = 1 =>
                       \A c \in {<<Wave(n), Ramp(n)>>, <<Ramp(n), Wave(n)>>} :
                           RowDot(M, row, o2, c[1], c[2], 0) =
                               Sub(CalculateDerivativeOn(_r, c[1], c[2], i, k),
                                   CalculateDerivativeOn(_r, c[1], c[2], i + 1, k))

\* the continuity row of the grid 0, 2, 5, whose two intervals differ
C10_witness ==
    /\ IsCall("AddBCToFitMatrix") /\ nops = 1
    /\ _r = [i \in 0 .. 2 |-> IF i = 0 THEN Dbl(0) ELSE IF i = 1 THEN Dbl(2) ELSE Dbl(5)]
    /\ Entry(M, last.args[1] + 1, last.args[2] + 1) = Q(5, 6)
    /\ Entry(M, last.args[1] + 1, last.args[2] + 4) = Q(5, 3)

---------------------------------------------------------------------------
(* Properties of linalg_invert (specification SpecInvert).                 *)

\* the call has ended, by returning or by an exception
Ended == inv.pc \in {"returned", "thrown"}

\* C11: on every path by which a linalg_invert(A, V) call ends, the GSL
\* error handler is again the one that was installed before the call, and
\* the matrix A is what it was before the call.
C11_handler_restored ==
    Ended =>
        /\ gsl_error_handler = atEntry.handler
        /\ mem[inv.A] = atEntry.A

===========================================================================
